---------------------------- MODULE Spec2Model ----------------------------
(***************************************************************************)
(* Model of plugins/publish-code/audit.py: the publish-readiness audit.    *)
(*                                                                         *)
(* main() checks two preconditions, lists the tracked files, runs the      *)
(* secret scanner (gitleaks, else the in-process fallback), the link       *)
(* validator (a pool of at most 10 concurrent curl probes), the            *)
(* hardcoded-path, org-reference and typo scanners, and prints one JSON    *)
(* report with the two gates has_blockers and needs_review.                *)
(*                                                                         *)
(* File contents are modelled as lines, a line as a sequence of segments   *)
(* [k, n, u]: k is what the regular expressions of the scanners see in     *)
(* that stretch of text, n its length in characters, u the URL of a        *)
(* markdown link (0 otherwise).                                            *)
(***************************************************************************)
EXTENDS Integers, Sequences, FiniteSets, TLC

\* ------------------------------------------------------------------ bounds
\* Longest tracked-file list of the small repositories.
MaxFiles == 2
\* Number of distinct URLs in the link-heavy repository (one more than the pool).
PoolUrls == 11

\* ------------------------------------------------------- program constants
FileCap == 300          \* tracked_files[:300]
OrgFileCap == 200       \* tracked_files[:200]
SizeCeiling == 200000   \* st_size > 200000
DocSizeCeiling == 100000 \* st_size > 100000
SampleLen == 100        \* line.strip()[:100]
max_workers == 10       \* ThreadPoolExecutor(max_workers=10)
GhpLen == 40            \* ghp_ + 36 alphanumerics
AkiaLen == 20           \* AKIA + 16

Min(a, b) == IF a < b THEN a ELSE b

\* ------------------------------------------------------------ file contents
Seg(k, n) == [k |-> k, n |-> n, u |-> 0]
Link(u) == [k |-> "link", n |-> 30, u |-> u]

\* The GitHub token of scenario B: ghp_ followed by exactly 36 alphanumerics.
GhpToken == Seg("ghp", GhpLen)
\* One character short: not a token.
GhpShort == Seg("ghp", GhpLen - 1)

\* URLs are numbered.  1 and 2 occur in the small repositories,
\* 3 .. PoolUrls + 2 in the link-heavy one.

\* urlparse(url).netloc
netloc(u) == IF u = 1 THEN "example.invalid" ELSE "docs.example.org"

RECURSIVE PoolLines(_)
PoolLines(u) ==
    IF u > PoolUrls + 2 THEN <<>> ELSE <<(<<Link(u)>>)>> \o PoolLines(u + 1)

\* The first FileCap paths git lists for the large repository: its images.
AssetNames ==
    << "assets/img001.png", "assets/img002.png", "assets/img003.png", "assets/img004.png",
       "assets/img005.png", "assets/img006.png", "assets/img007.png", "assets/img008.png",
       "assets/img009.png", "assets/img010.png", "assets/img011.png", "assets/img012.png",
       "assets/img013.png", "assets/img014.png", "assets/img015.png", "assets/img016.png",
       "assets/img017.png", "assets/img018.png", "assets/img019.png", "assets/img020.png",
       "assets/img021.png", "assets/img022.png", "assets/img023.png", "assets/img024.png",
       "assets/img025.png", "assets/img026.png", "assets/img027.png", "assets/img028.png",
       "assets/img029.png", "assets/img030.png", "assets/img031.png", "assets/img032.png",
       "assets/img033.png", "assets/img034.png", "assets/img035.png", "assets/img036.png",
       "assets/img037.png", "assets/img038.png", "assets/img039.png", "assets/img040.png",
       "assets/img041.png", "assets/img042.png", "assets/img043.png", "assets/img044.png",
       "assets/img045.png", "assets/img046.png", "assets/img047.png", "assets/img048.png",
       "assets/img049.png", "assets/img050.png", "assets/img051.png", "assets/img052.png",
       "assets/img053.png", "assets/img054.png", "assets/img055.png", "assets/img056.png",
       "assets/img057.png", "assets/img058.png", "assets/img059.png", "assets/img060.png",
       "assets/img061.png", "assets/img062.png", "assets/img063.png", "assets/img064.png",
       "assets/img065.png", "assets/img066.png", "assets/img067.png", "assets/img068.png",
       "assets/img069.png", "assets/img070.png", "assets/img071.png", "assets/img072.png",
       "assets/img073.png", "assets/img074.png", "assets/img075.png", "assets/img076.png",
       "assets/img077.png", "assets/img078.png", "assets/img079.png", "assets/img080.png",
       "assets/img081.png", "assets/img082.png", "assets/img083.png", "assets/img084.png",
       "assets/img085.png", "assets/img086.png", "assets/img087.png", "assets/img088.png",
       "assets/img089.png", "assets/img090.png", "assets/img091.png", "assets/img092.png",
       "assets/img093.png", "assets/img094.png", "assets/img095.png", "assets/img096.png",
       "assets/img097.png", "assets/img098.png", "assets/img099.png", "assets/img100.png",
       "assets/img101.png", "assets/img102.png", "assets/img103.png", "assets/img104.png",
       "assets/img105.png", "assets/img106.png", "assets/img107.png", "assets/img108.png",
       "assets/img109.png", "assets/img110.png", "assets/img111.png", "assets/img112.png",
       "assets/img113.png", "assets/img114.png", "assets/img115.png", "assets/img116.png",
       "assets/img117.png", "assets/img118.png", "assets/img119.png", "assets/img120.png",
       "assets/img121.png", "assets/img122.png", "assets/img123.png", "assets/img124.png",
       "assets/img125.png", "assets/img126.png", "assets/img127.png", "assets/img128.png",
       "assets/img129.png", "assets/img130.png", "assets/img131.png", "assets/img132.png",
       "assets/img133.png", "assets/img134.png", "assets/img135.png", "assets/img136.png",
       "assets/img137.png", "assets/img138.png", "assets/img139.png", "assets/img140.png",
       "assets/img141.png", "assets/img142.png", "assets/img143.png", "assets/img144.png",
       "assets/img145.png", "assets/img146.png", "assets/img147.png", "assets/img148.png",
       "assets/img149.png", "assets/img150.png", "assets/img151.png", "assets/img152.png",
       "assets/img153.png", "assets/img154.png", "assets/img155.png", "assets/img156.png",
       "assets/img157.png", "assets/img158.png", "assets/img159.png", "assets/img160.png",
       "assets/img161.png", "assets/img162.png", "assets/img163.png", "assets/img164.png",
       "assets/img165.png", "assets/img166.png", "assets/img167.png", "assets/img168.png",
       "assets/img169.png", "assets/img170.png", "assets/img171.png", "assets/img172.png",
       "assets/img173.png", "assets/img174.png", "assets/img175.png", "assets/img176.png",
       "assets/img177.png", "assets/img178.png", "assets/img179.png", "assets/img180.png",
       "assets/img181.png", "assets/img182.png", "assets/img183.png", "assets/img184.png",
       "assets/img185.png", "assets/img186.png", "assets/img187.png", "assets/img188.png",
       "assets/img189.png", "assets/img190.png", "assets/img191.png", "assets/img192.png",
       "assets/img193.png", "assets/img194.png", "assets/img195.png", "assets/img196.png",
       "assets/img197.png", "assets/img198.png", "assets/img199.png", "assets/img200.png",
       "assets/img201.png", "assets/img202.png", "assets/img203.png", "assets/img204.png",
       "assets/img205.png", "assets/img206.png", "assets/img207.png", "assets/img208.png",
       "assets/img209.png", "assets/img210.png", "assets/img211.png", "assets/img212.png",
       "assets/img213.png", "assets/img214.png", "assets/img215.png", "assets/img216.png",
       "assets/img217.png", "assets/img218.png", "assets/img219.png", "assets/img220.png",
       "assets/img221.png", "assets/img222.png", "assets/img223.png", "assets/img224.png",
       "assets/img225.png", "assets/img226.png", "assets/img227.png", "assets/img228.png",
       "assets/img229.png", "assets/img230.png", "assets/img231.png", "assets/img232.png",
       "assets/img233.png", "assets/img234.png", "assets/img235.png", "assets/img236.png",
       "assets/img237.png", "assets/img238.png", "assets/img239.png", "assets/img240.png",
       "assets/img241.png", "assets/img242.png", "assets/img243.png", "assets/img244.png",
       "assets/img245.png", "assets/img246.png", "assets/img247.png", "assets/img248.png",
       "assets/img249.png", "assets/img250.png", "assets/img251.png", "assets/img252.png",
       "assets/img253.png", "assets/img254.png", "assets/img255.png", "assets/img256.png",
       "assets/img257.png", "assets/img258.png", "assets/img259.png", "assets/img260.png",
       "assets/img261.png", "assets/img262.png", "assets/img263.png", "assets/img264.png",
       "assets/img265.png", "assets/img266.png", "assets/img267.png", "assets/img268.png",
       "assets/img269.png", "assets/img270.png", "assets/img271.png", "assets/img272.png",
       "assets/img273.png", "assets/img274.png", "assets/img275.png", "assets/img276.png",
       "assets/img277.png", "assets/img278.png", "assets/img279.png", "assets/img280.png",
       "assets/img281.png", "assets/img282.png", "assets/img283.png", "assets/img284.png",
       "assets/img285.png", "assets/img286.png", "assets/img287.png", "assets/img288.png",
       "assets/img289.png", "assets/img290.png", "assets/img291.png", "assets/img292.png",
       "assets/img293.png", "assets/img294.png", "assets/img295.png", "assets/img296.png",
       "assets/img297.png", "assets/img298.png", "assets/img299.png", "assets/img300.png" >>

\* The working tree: what each path is on disk.
\*   stat: "file"       a readable regular file
\*         "missing"    tracked but deleted from the working tree
\*         "vanishes"   exists() answers True, the file is gone at stat()
\*         "unreadable" read_text() raises
File(name) ==
    CASE name = "README.md" ->
           [ext |-> ".md", size |-> 900, stat |-> "file", orgskip |-> FALSE,
            lines |-> << <<Seg("text", 12), Link(1), Seg("text", 3), Link(2)>>,
                         <<Seg("typo_github", 7), Seg("text", 5), Link(1)>> >>]
      [] name = "docs/guide.md" ->
           [ext |-> ".md", size |-> 700, stat |-> "file", orgskip |-> FALSE,
            lines |-> << <<Link(2)>>,
                         <<Seg("@apartresearch.com", 18),
                           Seg("Apart Research", 14), Seg("text", 20),
                           Seg("/home/", 12), Seg("/Users/", 13)>> >>]
      [] name = "src/config.py" ->
           [ext |-> ".py", size |-> 300, stat |-> "file", orgskip |-> FALSE,
            lines |-> << <<Seg("text", 20)>>,
                         <<Seg("ws", 4), Seg("text", 8), GhpToken,
                           Seg("text", 4), Seg("/Users/", 13), Seg("ws", 1)>>,
                         <<Seg("AKIA", AkiaLen)>> >>]
      [] name = "deploy/pins.lock" ->
           [ext |-> ".lock", size |-> 5000, stat |-> "file", orgskip |-> FALSE,
            lines |-> << <<Seg("text", 6), GhpToken>> >>]
      [] name = "notes.txt" ->
           [ext |-> ".txt", size |-> 400, stat |-> "unreadable", orgskip |-> FALSE,
            lines |-> << <<GhpShort, Seg("typo_api", 5)>> >>]
      [] name = "tmp/cache.txt" ->
           [ext |-> ".txt", size |-> 100, stat |-> "vanishes", orgskip |-> FALSE,
            lines |-> << <<Seg("text", 10)>> >>]
      [] name = "LICENSE" ->
           [ext |-> "", size |-> 1100, stat |-> "file", orgskip |-> TRUE,
            lines |-> << <<Seg("text", 30), Seg("Apart Research", 14)>> >>]
      [] name = "data/dump.sql" ->
           [ext |-> ".sql", size |-> 150000, stat |-> "file", orgskip |-> FALSE,
            lines |-> << <<Seg("text", 120), Seg("/home/", 12), GhpToken>> >>]
      [] name = "LINKS.md" ->
           [ext |-> ".md", size |-> 2000, stat |-> "file", orgskip |-> FALSE,
            lines |-> PoolLines(3)]
      [] name = "zz/late.md" ->
           [ext |-> ".md", size |-> 600, stat |-> "file", orgskip |-> FALSE,
            lines |-> << <<Seg("typo_jq", 3), Seg("text", 9), Seg("/home/", 12)>>,
                         <<Seg("apartresearch", 13), GhpToken, Link(2)>> >>]
      [] OTHER ->
           [ext |-> ".png", size |-> 40000, stat |-> "file", orgskip |-> FALSE,
            lines |-> << <<Seg("text", 50)>> >>]

exists(name) == File(name).stat # "missing"

\* The concatenation of a sequence of sequences: the content of a file (all
\* the segments of its lines), the findings of a list of files.
RECURSIVE Flatten(_)
Flatten(lines) ==
    IF Len(lines) = 0 THEN <<>>
    ELSE IF Len(lines) = 1 THEN lines[1]
    ELSE LET mid == Len(lines) \div 2
         IN  Flatten(SubSeq(lines, 1, mid))
                 \o Flatten(SubSeq(lines, mid + 1, Len(lines)))


SeqToSet(s) == { s[i] : i \in 1 .. Len(s) }

\* ------------------------------------------------------------ pattern tables
\* A pattern matches a segment whose kind it recognises and that is long
\* enough: re.search finds the expression anywhere in the text.
Pat(ks, min, desc) == [ks |-> ks, min |-> min, desc |-> desc]

MatchesSeg(p, seg) == seg.k \in p.ks /\ seg.n >= p.min

\* re.search(pattern, text) / re.findall(pattern, text) non-empty
re_search(p, segs) == \E i \in 1 .. Len(segs) : MatchesSeg(p, segs[i])

path_patterns ==
    << Pat({"/Users/"}, 9, "macOS user path"),
       Pat({"/home/"}, 8, "Linux user path"),
       Pat({"C:\\Users\\"}, 11, "Windows user path") >>

secret_patterns ==
    << Pat({"sk-ant"}, 97, "Anthropic API key"),
       Pat({"sk"}, 51, "OpenAI API key"),
       Pat({"sk-proj"}, 88, "OpenAI project API key"),
       Pat({"ghp"}, GhpLen, "GitHub personal access token"),
       Pat({"gho"}, 40, "GitHub OAuth token"),
       Pat({"github_pat"}, 93, "GitHub fine-grained PAT"),
       Pat({"AKIA"}, AkiaLen, "AWS access key ID"),
       Pat({"xoxb"}, 53, "Slack bot token"),
       Pat({"xoxp"}, 53, "Slack user token"),
       Pat({"pem"}, 27, "Private key") >>

org_patterns ==
    << Pat({"Apart Research", "ApartResearch"}, 13, "Apart Research reference"),
       Pat({"ApartResearch", "apartresearch", "@apartresearch.com"}, 13,
           "apartresearch reference"),
       Pat({"@apartresearch.com"}, 18, "Apart email"),
       Pat({"notion"}, 42, "Notion page/database ID") >>

typo_patterns ==
    << Pat({"typo_shellcheck"}, 11, "shellcheck"),
       Pat({"typo_github"}, 7, "GitHub"),
       Pat({"typo_gitlab"}, 7, "GitLab"),
       Pat({"typo_jq"}, 3, "jq"),
       Pat({"typo_pdf"}, 5, "pdf"),
       Pat({"typo_cli"}, 5, "CLI"),
       Pat({"typo_api"}, 5, "API"),
       Pat({"typo_url"}, 5, "URL") >>

path_skip_extensions ==
    {".png", ".jpg", ".gif", ".ico", ".woff", ".ttf", ".pdf", ".zip", ".gz", ".tar"}

secret_skip_extensions == path_skip_extensions \cup {".lock"}

doc_extensions == {".md", ".rst", ".txt"}

\* Mutant: the last pattern of the table that matches wins.
FirstMatch_Last(table, segs, i) ==
    LET M == { j \in i .. Len(table) : re_search(table[j], segs) }
    IN  IF M = {} THEN 0 ELSE CHOOSE j \in M : \A k \in M : k <= j

\* Index of the first pattern of the table that matches, 0 if none.
RECURSIVE FirstMatch(_, _, _)
FirstMatch(table, segs, i) ==
    IF i > Len(table) THEN 0
    ELSE IF re_search(table[i], segs) THEN i
    ELSE FirstMatch(table, segs, i + 1)

\* Number of the first line the pattern matches, 0 if none.
RECURSIVE FirstLine(_, _, _)
FirstLine(p, lines, i) ==
    IF i > Len(lines) THEN 0
    ELSE IF re_search(p, lines[i]) THEN i
    ELSE FirstLine(p, lines, i + 1)

\* A segment that is a complete credential.
IsSecret(seg) == \E i \in 1 .. Len(secret_patterns) : MatchesSeg(secret_patterns[i], seg)

\* ------------------------------------------------------------ text helpers
RECURSIVE LStrip(_)
LStrip(segs) ==
    IF segs # <<>> /\ Head(segs).k = "ws" THEN LStrip(Tail(segs)) ELSE segs

RECURSIVE RStrip(_)
RStrip(segs) ==
    IF segs # <<>> /\ segs[Len(segs)].k = "ws"
    THEN RStrip(SubSeq(segs, 1, Len(segs) - 1))
    ELSE segs

\* line.strip()
strip(segs) == RStrip(LStrip(segs))

\* text[:n]: the first n characters; the segment cut by the limit is kept
\* with the length that is left of it.
RECURSIVE Take(_, _)
Take(segs, n) ==
    IF segs = <<>> \/ n <= 0 THEN <<>>
    ELSE IF Head(segs).n <= n
         THEN <<Head(segs)>> \o Take(Tail(segs), n - Head(segs).n)
         ELSE << [Head(segs) EXCEPT !.n = n] >>

\* tracked_files[:n]
Slice(s, n) == SubSeq(s, 1, Min(Len(s), n))

\* The value a scanner function hands back, or the exception that leaves it.
Ret(v) == [raise |-> FALSE, val |-> v]
Raise == [raise |-> TRUE, val |-> <<>>]

\* --------------------------------------------------------- get_tracked_files
\* git ls-files: "ok" prints the index, "fail" exits non-zero with nothing on
\* stdout, "notfound" is the executable missing (caught: the list is empty),
\* "hang" is a git that never exits: subprocess.run is called without a
\* timeout and does not return.
GitOutcomes(tools) ==
    IF "git" \in tools THEN {"ok", "fail", "hang"} ELSE {"notfound"}

get_tracked_files(files, out) == IF out = "ok" THEN files ELSE <<>>

\* ------------------------------------------------------ scan_hardcoded_paths
\* The file gets as far as full_path.stat(), which is outside the try block.
PathStats(name) == exists(name) /\ File(name).ext \notin path_skip_extensions

PathFinding(name) ==
    LET f == File(name)
        pi == FirstMatch(path_patterns, Flatten(f.lines), 1)
        ln == IF pi = 0 THEN 0 ELSE FirstLine(path_patterns[pi], f.lines, 1)
    IN  IF ~PathStats(name) \/ f.size > SizeCeiling \/ f.stat = "unreadable"
           \/ pi = 0 \/ ln = 0
        THEN <<>>
        ELSE << [file |-> name, line |-> ln, type |-> path_patterns[pi].desc,
                 sample |-> Take(strip(f.lines[ln]), SampleLen)] >>

scan_hardcoded_paths(tracked) ==
    LET files == Slice(tracked, FileCap)
    IN  IF \E i \in 1 .. Len(files) :
               PathStats(files[i]) /\ File(files[i]).stat = "vanishes"
        THEN Raise
        ELSE Ret(Flatten([i \in 1 .. Len(files) |-> PathFinding(files[i])]))

\* ----------------------------------------------------- scan_secrets_fallback
SecretStats(name) == exists(name) /\ File(name).ext \notin secret_skip_extensions

SecretFinding(name) ==
    LET f == File(name)
        pi == FirstMatch(secret_patterns, Flatten(f.lines), 1)
    IN  IF ~SecretStats(name) \/ f.size > SizeCeiling \/ f.stat = "unreadable"
           \/ pi = 0
        THEN <<>>
        ELSE << [file |-> name, type |-> secret_patterns[pi].desc,
                 severity |-> "HIGH"] >>

scan_secrets_fallback(tracked) ==
    LET files == Slice(tracked, FileCap)
    IN  IF \E i \in 1 .. Len(files) :
               SecretStats(files[i]) /\ File(files[i]).stat = "vanishes"
        THEN Raise
        ELSE Ret(Flatten([i \in 1 .. Len(files) |-> SecretFinding(files[i])]))

\* ------------------------------------------------------- scan_org_references
OrgStats(name) ==
    /\ ~File(name).orgskip
    /\ exists(name)
    /\ File(name).ext \notin secret_skip_extensions

OrgFinding(name) ==
    LET f == File(name)
        pi == FirstMatch(org_patterns, Flatten(f.lines), 1)
    IN  IF ~OrgStats(name) \/ f.size > DocSizeCeiling \/ f.stat = "unreadable"
           \/ pi = 0
        THEN <<>>
        ELSE << [file |-> name, type |-> org_patterns[pi].desc] >>

scan_org_references(tracked) ==
    LET files == Slice(tracked, OrgFileCap)
    IN  IF \E i \in 1 .. Len(files) :
               OrgStats(files[i]) /\ File(files[i]).stat = "vanishes"
        THEN Raise
        ELSE Ret(Flatten([i \in 1 .. Len(files) |-> OrgFinding(files[i])]))

\* ---------------------------------------------------------------- scan_typos
DocStats(name) == File(name).ext \in doc_extensions /\ exists(name)

RECURSIVE TypoMatches(_, _, _)
TypoMatches(name, content, i) ==
    IF i > Len(typo_patterns) THEN <<>>
    ELSE (IF re_search(typo_patterns[i], content)
          THEN << [file |-> name, pattern |-> i,
                   suggestion |-> typo_patterns[i].desc] >>
          ELSE <<>>) \o TypoMatches(name, content, i + 1)

TypoFinding(name) ==
    LET f == File(name)
    IN  IF ~DocStats(name) \/ f.size > DocSizeCeiling \/ f.stat = "unreadable"
        THEN <<>>
        ELSE TypoMatches(name, Flatten(f.lines), 1)

scan_typos(tracked) ==
    IF \E i \in 1 .. Len(tracked) :
           DocStats(tracked[i]) /\ File(tracked[i]).stat = "vanishes"
    THEN Raise
    ELSE Ret(Flatten([i \in 1 .. Len(tracked) |-> TypoFinding(tracked[i])]))

\* ----------------------------------------------------- scan_secrets_gitleaks
\* What a healthy gitleaks finds in the repository: every credential of every
\* tracked file, with the line it starts on.
RECURSIVE SecretsOfLine(_, _, _)
SecretsOfLine(name, ln, segs) ==
    IF segs = <<>> THEN <<>>
    ELSE (IF IsSecret(Head(segs))
          THEN << [File |-> name, StartLine |-> ln,
                   Description |-> secret_patterns[
                       FirstMatch(secret_patterns, <<Head(segs)>>, 1)].desc] >>
          ELSE <<>>) \o SecretsOfLine(name, ln, Tail(segs))

RECURSIVE SecretsOfLines(_, _, _)
SecretsOfLines(name, lines, ln) ==
    IF ln > Len(lines) THEN <<>>
    ELSE SecretsOfLine(name, ln, lines[ln]) \o SecretsOfLines(name, lines, ln + 1)

GitleaksFileReport(name) == SecretsOfLines(name, File(name).lines, 1)

GitleaksReport(files) ==
    Flatten([i \in 1 .. Len(files) |-> GitleaksFileReport(files[i])])

\* The ways the gitleaks subprocess can end.  The exit code of a run that
\* ends with 0 or 1 tells whether the repository holds a secret; what is on
\* stdout is the tool's business: nothing (the report went elsewhere), the
\* JSON array of findings, text that is no JSON, or JSON that is no array.
GitleaksStdouts == {"empty", "array", "garbage", "object"}

GitleaksOutcomes(tools, files) ==
    IF "gitleaks" \notin tools
    THEN { [kind |-> "notfound", rc |-> 0, stdout |-> "empty"] }
    ELSE { [kind |-> "timeout", rc |-> 0, stdout |-> "empty"],
           [kind |-> "oserror", rc |-> 0, stdout |-> "empty"] }
         \cup { [kind |-> "exit", rc |-> 2, stdout |-> so] : so \in {"empty", "garbage"} }
         \cup { [kind |-> "exit",
                 rc |-> IF GitleaksReport(files) = <<>> THEN 0 ELSE 1,
                 stdout |-> so] : so \in GitleaksStdouts }

\* gitleaks has not been started (yet).
NotRun == [kind |-> "none", rc |-> 0, stdout |-> "empty"]

None == [raise |-> FALSE, none |-> TRUE, val |-> <<>>]
Some(v) == [raise |-> FALSE, none |-> FALSE, val |-> v]
Raised == [raise |-> TRUE, none |-> FALSE, val |-> <<>>]

GitleaksFinding(f) ==
    << [file |-> f.File, line |-> f.StartLine, type |-> f.Description,
        severity |-> "HIGH"] >>

scan_secrets_gitleaks(out, files) ==
    CASE out.kind \in {"notfound", "timeout"} -> None
      [] out.kind = "oserror" -> Raised
      [] out.kind = "exit" ->
           IF out.rc \notin {0, 1} THEN None
           ELSE IF out.stdout = "empty" THEN Some(<<>>)
           ELSE IF out.stdout = "garbage" THEN None
           ELSE IF out.stdout = "object" THEN Raised
           ELSE Some(Flatten([i \in 1 .. Len(GitleaksReport(files)) |->
                               GitleaksFinding(GitleaksReport(files)[i])]))

\* scan_potential_secrets: [raise, secrets, scanner_used]
scan_potential_secrets(out, files, tracked) ==
    LET g == scan_secrets_gitleaks(out, files)
        fb == scan_secrets_fallback(tracked)
    IN  IF g.raise THEN [raise |-> TRUE, secrets |-> <<>>, scanner |-> ""]
        ELSE IF ~g.none
             THEN [raise |-> FALSE, secrets |-> g.val, scanner |-> "gitleaks"]
        ELSE [raise |-> fb.raise, secrets |-> fb.val, scanner |-> "fallback"]

\* ---------------------------------------------------------------- check_link
\* The ways one curl probe can end: the executable is missing, the probe
\* times out, or curl prints "<http_code> <redirect_url>".  code 0 is the
\* "000" curl prints when it got no HTTP response; code -1 stands for output
\* that does not start with digits.  redirect is the netloc of redirect_url,
\* "" when curl printed none.
Ans(kind, code, redirect) == [kind |-> kind, code |-> code, redirect |-> redirect]

CurlAnswers(u, tools) ==
    IF "curl" \notin tools THEN { Ans("notfound", 0, "") }
    ELSE IF u = 1 THEN { Ans("out", 0, ""), Ans("timeout", 0, "") }
    ELSE IF u = 2 THEN { Ans("out", 200, ""), Ans("out", 404, ""),
                         Ans("out", 200, "docs.example.org"),
                         Ans("out", 200, "mirror.example.net"),
                         Ans("out", 404, "mirror.example.net") }
    ELSE IF u = 3 THEN { Ans("out", 200, ""), Ans("out", 500, ""), Ans("out", -1, "") }
    ELSE { Ans("out", 200, "") }

check_link(url, ans) ==
    LET status == IF ans.code >= 0 THEN ans.code ELSE 0
        original_domain == netloc(url)
        final_domain == IF ans.redirect # "" THEN ans.redirect ELSE original_domain
    IN  CASE ans.kind = "timeout" ->
               [url |-> url, status |-> 0, issue |-> "timeout"]
          [] ans.kind = "notfound" ->
               [url |-> url, status |-> 0,
                issue |-> "[Errno 2] No such file or directory: 'curl'"]
          [] ans.kind = "out" ->
               IF status >= 400
               THEN [url |-> url, status |-> status, issue |-> "error"]
               ELSE IF final_domain # "" /\ final_domain # original_domain
               THEN [url |-> url, status |-> status, issue |-> "redirect",
                     final_url |-> ans.redirect]
               ELSE [url |-> url, status |-> status, issue |-> "none"]

\* ---------------------------------------------------------------- scan_links
\* urls_found: the dict url -> first file, as the sequence of its items in
\* insertion order.
HasUrl(found, u) == \E i \in 1 .. Len(found) : found[i].url = u

RECURSIVE AddUrls(_, _, _)
AddUrls(found, name, segs) ==
    IF segs = <<>> THEN found
    ELSE LET h == Head(segs)
         IN  IF h.k = "link" /\ ~HasUrl(found, h.u)
             THEN AddUrls(Append(found, [url |-> h.u, file |-> name]), name, Tail(segs))
             ELSE AddUrls(found, name, Tail(segs))

RECURSIVE ExtractUrls(_, _)
ExtractUrls(found, tracked) ==
    IF tracked = <<>> THEN found
    ELSE LET name == Head(tracked)
             f == File(name)
         IN  IF ~DocStats(name) \/ f.size > DocSizeCeiling \/ f.stat = "unreadable"
             THEN ExtractUrls(found, Tail(tracked))
             ELSE ExtractUrls(AddUrls(found, name, Flatten(f.lines)), Tail(tracked))

\* file_path.endswith((".md", ".rst", ".txt"))
IsDoc(name) == File(name).ext \in doc_extensions

scan_links_extract(tracked) ==
    IF \E i \in 1 .. Len(tracked) :
           DocStats(tracked[i]) /\ File(tracked[i]).stat = "vanishes"
    THEN Raise
    ELSE Ret(ExtractUrls(<<>>, SelectSeq(tracked, IsDoc)))

FileOfUrl(found, u) == found[CHOOSE i \in 1 .. Len(found) : found[i].url = u].file

\* -------------------------------------------------------------- check_basics
check_basics(files) ==
    [has_license |-> \E i \in 1 .. Len(files) : files[i] = "LICENSE" /\ exists(files[i]),
     has_readme |-> \E i \in 1 .. Len(files) : files[i] = "README.md" /\ exists(files[i]),
     has_contributing |-> FALSE,
     has_gitignore |-> FALSE,
     has_issue_templates |-> FALSE]

\* -------------------------------------------------------------- summary flags
\* Mutant: any finding list blocks.
has_blockers_AnyFinding(result) ==
    result.potential_secrets # <<>> \/ result.hardcoded_paths # <<>>

has_blockers(result) == result.potential_secrets # <<>>

\* Mutant: secrets ask for review too.
needs_review_WithSecrets(result) ==
    \/ result.hardcoded_paths # <<>>
    \/ result.org_references # <<>>
    \/ result.broken_links # <<>>
    \/ result.typos # <<>>
    \/ result.potential_secrets # <<>>

needs_review(result) ==
    \/ result.hardcoded_paths # <<>>
    \/ result.org_references # <<>>
    \/ result.broken_links # <<>>
    \/ result.typos # <<>>

\* ===================================================================== state
VARIABLES
    repo,             \* the audited path: [exists, has_git, files]
    installed,        \* the external tools found on PATH
    pc,               \* where main is
    tracked_files,    \* main: tracked_files
    secrets,          \* main: secrets
    scanner_used,     \* main: scanner_used
    urls_found,       \* scan_links: urls_found, in insertion order
    futures,          \* scan_links: the URLs submitted to the executor, in order
    started,          \* how many of the futures a worker has taken up
    running,          \* indices of the futures whose curl probe is in flight
    answers,          \* index of a finished future -> what its curl probe gave
    issues,           \* scan_links: issues
    link_issues,      \* main: link_issues
    hardcoded_paths,  \* result["hardcoded_paths"]
    org_references,   \* result["org_references"]
    typos,            \* result["typos"]
    report,           \* the report printed on stdout: <<>> or <<result>>
    error_out,        \* the error object printed on stdout: "" or its message
    exit_code,        \* -1 while running, else the exit code of the process
    invoked,          \* the external programs started so far
    gitleaks_run      \* how the gitleaks subprocess of this run ended

vars ==
    << repo, installed, pc, tracked_files, secrets, scanner_used, urls_found,
       futures, started, running, answers, issues, link_issues, hardcoded_paths,
       org_references, typos, report, error_out, exit_code, invoked,
       gitleaks_run >>

Tools == {"git", "gitleaks", "curl"}

\* git ls-files prints the index sorted by path.
SortedNames ==
    << "LICENSE", "README.md", "data/dump.sql", "deploy/pins.lock",
       "docs/guide.md", "notes.txt", "src/config.py", "tmp/cache.txt" >>

RECURSIVE PickNames(_, _)
PickNames(S, i) ==
    IF i > Len(SortedNames) THEN <<>>
    ELSE (IF i \in S THEN <<SortedNames[i]>> ELSE <<>>) \o PickNames(S, i + 1)

TrackedLists ==
    { PickNames(S, 1) :
        S \in { T \in SUBSET (1 .. Len(SortedNames)) : Cardinality(T) <= MaxFiles } }

Repo(e, g, files) == [exists |-> e, has_git |-> g, files |-> files]

InitRest ==
    /\ pc = "start"
    /\ tracked_files = <<>>
    /\ secrets = <<>>
    /\ scanner_used = ""
    /\ urls_found = <<>>
    /\ futures = <<>>
    /\ started = 0
    /\ running = {}
    /\ answers = <<>>
    /\ issues = <<>>
    /\ link_issues = <<>>
    /\ hardcoded_paths = <<>>
    /\ org_references = <<>>
    /\ typos = <<>>
    /\ report = <<>>
    /\ error_out = ""
    /\ exit_code = -1
    /\ invoked = {}
    /\ gitleaks_run = NotRun

\* A path that is no repository, a small repository with any tools installed,
\* the link-heavy repository (more URLs than the pool has workers), or the
\* large repository (one documentation file listed after FileCap images).
Init ==
    /\ \/ /\ repo \in { Repo(FALSE, FALSE, <<>>), Repo(TRUE, FALSE, <<>>) }
          /\ installed \in SUBSET Tools
       \/ /\ repo \in { Repo(TRUE, TRUE, fs) : fs \in TrackedLists }
          /\ installed \in SUBSET Tools
       \/ /\ repo = Repo(TRUE, TRUE, <<"LINKS.md">>)
          /\ installed \in { Tools, Tools \ {"gitleaks"} }
       \/ /\ repo = Repo(TRUE, TRUE, Append(AssetNames, "zz/late.md"))
          /\ installed \in { Tools, Tools \ {"gitleaks"} }
    /\ InitRest

\* An exception nobody catches: the traceback goes to stderr, the exit code is 1.
Crash ==
    /\ pc' = "crashed"
    /\ exit_code' = 1

\* ------------------------------------------------------------------- main
CheckPath ==
    /\ pc = "start"
    /\ IF ~repo.exists
       THEN /\ error_out' = "Path does not exist"
            /\ exit_code' = 1
            /\ pc' = "exited"
       ELSE /\ pc' = "check_git"
            /\ UNCHANGED << error_out, exit_code >>
    /\ UNCHANGED << gitleaks_run, repo, installed, tracked_files, secrets, scanner_used,
                    urls_found, futures, started, running, answers, issues,
                    link_issues, hardcoded_paths, org_references, typos,
                    report, invoked >>

\* Mutant: the .git check is skipped.
CheckGit_Skipped ==
    /\ pc = "check_git"
    /\ pc' = "list"
    /\ UNCHANGED << gitleaks_run, repo, installed, tracked_files, secrets, scanner_used,
                    urls_found, futures, started, running, answers, issues,
                    link_issues, hardcoded_paths, org_references, typos,
                    report, invoked, error_out, exit_code >>

CheckGit ==
    /\ pc = "check_git"
    /\ IF ~repo.has_git
       THEN /\ error_out' = "Not a git repository"
            /\ exit_code' = 1
            /\ pc' = "exited"
       ELSE /\ pc' = "list"
            /\ UNCHANGED << error_out, exit_code >>
    /\ UNCHANGED << gitleaks_run, repo, installed, tracked_files, secrets, scanner_used,
                    urls_found, futures, started, running, answers, issues,
                    link_issues, hardcoded_paths, org_references, typos,
                    report, invoked >>

ListFiles ==
    /\ pc = "list"
    /\ \E out \in GitOutcomes(installed) :
           IF out = "hang"
           THEN /\ pc' = "blocked"
                /\ UNCHANGED tracked_files
           ELSE /\ tracked_files' = get_tracked_files(repo.files, out)
                /\ pc' = "secrets"
    /\ invoked' = invoked \cup {"git"}
    /\ UNCHANGED << gitleaks_run, repo, installed, secrets, scanner_used, urls_found, futures,
                    started, running, answers, issues, link_issues,
                    hardcoded_paths, org_references, typos, report, error_out,
                    exit_code >>

ScanSecrets ==
    /\ pc = "secrets"
    /\ invoked' = invoked \cup {"gitleaks"}
    /\ \E out \in GitleaksOutcomes(installed, repo.files) :
         LET r == scan_potential_secrets(out, repo.files, tracked_files)
         IN  /\ gitleaks_run' = out
             /\ IF r.raise
                THEN /\ Crash
                     /\ UNCHANGED << secrets, scanner_used >>
                ELSE /\ secrets' = r.secrets
                     /\ scanner_used' = r.scanner
                     /\ pc' = "links"
                     /\ UNCHANGED exit_code
    /\ UNCHANGED << repo, installed, tracked_files, urls_found, futures, started,
                    running, answers, issues, link_issues, hardcoded_paths,
                    org_references, typos, report, error_out >>

\* result["file"] = urls_found[result["url"]]
WithFile(result, file) ==
    [k \in DOMAIN result \cup {"file"} |-> IF k = "file" THEN file ELSE result[k]]

\* scan_links up to the submission of one future per key of urls_found.
ExtractLinks ==
    /\ pc = "links"
    /\ LET r == scan_links_extract(tracked_files)
       IN  IF r.raise
           THEN /\ Crash
                /\ UNCHANGED << urls_found, futures, link_issues >>
           ELSE /\ urls_found' = r.val
                /\ UNCHANGED exit_code
                /\ IF r.val = <<>>
                   THEN /\ link_issues' = <<>>
                        /\ pc' = "paths"
                        /\ UNCHANGED futures
                   ELSE /\ futures' = [i \in 1 .. Len(r.val) |-> r.val[i].url]
                        /\ pc' = "pool"
                        /\ UNCHANGED link_issues
    /\ UNCHANGED << gitleaks_run, repo, installed, tracked_files, secrets, scanner_used,
                    started, running, answers, issues, hardcoded_paths,
                    org_references, typos, report, error_out, invoked >>

\* A worker of the pool takes the next future of the queue and starts curl.
\* Mutant: one thread per future.
PoolHasRoom_Unbounded(busy) == TRUE

PoolHasRoom(busy) == Cardinality(busy) < max_workers

StartProbe ==
    /\ pc = "pool"
    /\ started < Len(futures)
    /\ PoolHasRoom(running)
    /\ started' = started + 1
    /\ running' = running \cup {started + 1}
    /\ invoked' = invoked \cup {"curl"}
    /\ UNCHANGED << gitleaks_run, repo, installed, pc, tracked_files, secrets, scanner_used,
                    urls_found, futures, answers, issues, link_issues,
                    hardcoded_paths, org_references, typos, report, error_out,
                    exit_code >>

\* A probe ends; as_completed hands its result to the loop of scan_links.
FinishProbe ==
    /\ pc = "pool"
    /\ \E i \in running :
         \E ans \in CurlAnswers(futures[i], installed) :
           LET result == check_link(futures[i], ans)
           IN  /\ running' = running \ {i}
               /\ answers' = [j \in DOMAIN answers \cup {i} |->
                                 IF j = i THEN ans ELSE answers[j]]
               /\ issues' = IF result.issue # "none"
                            THEN Append(issues,
                                   WithFile(result, FileOfUrl(urls_found, result.url)))
                            ELSE issues
    /\ UNCHANGED << gitleaks_run, repo, installed, pc, tracked_files, secrets, scanner_used,
                    urls_found, futures, started, link_issues, hardcoded_paths,
                    org_references, typos, report, error_out, exit_code, invoked >>

\* Mutant: scan_links returns once every probe was handed to a worker.
JoinLinks_NoBarrier ==
    /\ pc = "pool"
    /\ started = Len(futures)
    /\ link_issues' = issues
    /\ pc' = "paths"
    /\ UNCHANGED << gitleaks_run, repo, installed, tracked_files, secrets, scanner_used,
                    urls_found, futures, started, running, answers, issues,
                    hardcoded_paths, org_references, typos, report, error_out,
                    exit_code, invoked >>

\* The loop over as_completed is exhausted and the executor is shut down.
JoinLinks ==
    /\ pc = "pool"
    /\ started = Len(futures)
    /\ running = {}
    /\ link_issues' = issues
    /\ pc' = "paths"
    /\ UNCHANGED << gitleaks_run, repo, installed, tracked_files, secrets, scanner_used,
                    urls_found, futures, started, running, answers, issues,
                    hardcoded_paths, org_references, typos, report, error_out,
                    exit_code, invoked >>

ScanPaths ==
    /\ pc = "paths"
    /\ LET r == scan_hardcoded_paths(tracked_files)
       IN  IF r.raise
           THEN Crash /\ UNCHANGED hardcoded_paths
           ELSE /\ hardcoded_paths' = r.val
                /\ pc' = "org"
                /\ UNCHANGED exit_code
    /\ UNCHANGED << gitleaks_run, repo, installed, tracked_files, secrets, scanner_used,
                    urls_found, futures, started, running, answers, issues,
                    link_issues, org_references, typos, report, error_out,
                    invoked >>

ScanOrg ==
    /\ pc = "org"
    /\ LET r == scan_org_references(tracked_files)
       IN  IF r.raise
           THEN Crash /\ UNCHANGED org_references
           ELSE /\ org_references' = r.val
                /\ pc' = "typos"
                /\ UNCHANGED exit_code
    /\ UNCHANGED << gitleaks_run, repo, installed, tracked_files, secrets, scanner_used,
                    urls_found, futures, started, running, answers, issues,
                    link_issues, hardcoded_paths, typos, report, error_out,
                    invoked >>

ScanTypos ==
    /\ pc = "typos"
    /\ LET r == scan_typos(tracked_files)
       IN  IF r.raise
           THEN Crash /\ UNCHANGED typos
           ELSE /\ typos' = r.val
                /\ pc' = "emit"
                /\ UNCHANGED exit_code
    /\ UNCHANGED << gitleaks_run, repo, installed, tracked_files, secrets, scanner_used,
                    urls_found, futures, started, running, answers, issues,
                    link_issues, hardcoded_paths, org_references, report,
                    error_out, invoked >>

\* The result dict of main before the summary flags are added.
Result ==
    [repo_name |-> "repo",
     files_checked |-> Len(Slice(tracked_files, FileCap)),
     basics |-> check_basics(repo.files),
     hardcoded_paths |-> hardcoded_paths,
     potential_secrets |-> secrets,
     secrets_scanner |-> scanner_used,
     org_references |-> org_references,
     broken_links |-> link_issues,
     typos |-> typos]

WithFlags(result) ==
    [k \in DOMAIN result \cup {"has_blockers", "needs_review"} |->
        IF k = "has_blockers" THEN has_blockers(result)
        ELSE IF k = "needs_review" THEN needs_review(result)
        ELSE result[k]]

EmitReport ==
    /\ pc = "emit"
    /\ report' = << WithFlags(Result) >>
    /\ exit_code' = 0
    /\ pc' = "done"
    /\ UNCHANGED << gitleaks_run, repo, installed, tracked_files, secrets, scanner_used,
                    urls_found, futures, started, running, answers, issues,
                    link_issues, hardcoded_paths, org_references, typos,
                    error_out, invoked >>

Next ==
    \/ CheckPath
    \/ CheckGit
    \/ ListFiles
    \/ ScanSecrets
    \/ ExtractLinks
    \/ StartProbe
    \/ FinishProbe
    \/ JoinLinks
    \/ ScanPaths
    \/ ScanOrg
    \/ ScanTypos
    \/ EmitReport

Spec == Init /\ [][Next]_vars

\* ------------------------------------------------------------------ typing
Emitted == Len(report) = 1
TypeOK ==
    /\ pc \in {"start", "check_git", "list", "secrets", "links", "pool", "paths",
               "org", "typos", "emit", "done", "exited", "crashed", "blocked"}
    /\ exit_code \in {-1, 0, 1}
    /\ Emitted <=> pc = "done"

\* ================================================================ properties
R == report[1]

PassedPreconditions == repo.exists /\ repo.has_git

\* main is past scan_links.
PostLinks == {"paths", "org", "typos", "emit", "done"}

\* A tracked file holds a GitHub token of the exact prefix and length.
HasGhpToken(name) ==
    \E i \in 1 .. Len(Flatten(File(name).lines)) :
        Flatten(File(name).lines)[i] = GhpToken

TrackedGhpToken == \E i \in 1 .. Len(tracked_files) : HasGhpToken(tracked_files[i])

\* C1: in every emitted report has_blockers is true exactly when
\* potential_secrets is non-empty; no other finding list and no degraded
\* scanner sets or clears it.
C1_BlockersIffSecrets ==
    Emitted => (R.has_blockers <=> R.potential_secrets # <<>>)

\* Reached: a report of a run that fell back to the pattern scanner, with a
\* hardcoded-path finding and no secret, and has_blockers false.
C1_Witness ==
    /\ Emitted
    /\ R.secrets_scanner = "fallback"
    /\ R.hardcoded_paths # <<>>
    /\ R.potential_secrets = <<>>
    /\ ~R.has_blockers

\* C2: a run whose tracked-file list has a file holding a ghp_ token of the exact
\* length always gets a report with a non-empty potential_secrets and
\* has_blockers true, whichever secret scanner ran.
C2_TokenAlwaysBlocks ==
    (Emitted /\ TrackedGhpToken) =>
        (R.potential_secrets # <<>> /\ R.has_blockers)

\* C3: once the preconditions have passed, the run never ends otherwise than
\* with the full report and exit code 0, whatever fails inside a scanner.
C3_FailureStaysInScanner ==
    (PassedPreconditions /\ exit_code # -1) => (Emitted /\ exit_code = 0)

\* C4: for a path that does not exist or has no .git entry, no external
\* program is started, no scanner is entered and no report is printed; the
\* run ends with the error object and a non-zero exit code.
C4_PreconditionsFirst ==
    ~PassedPreconditions =>
        /\ invoked = {}
        /\ ~Emitted
        /\ pc \in {"start", "check_git", "exited"}
        /\ tracked_files = <<>> /\ secrets = <<>> /\ futures = <<>>
        /\ (pc = "exited" => error_out # "" /\ exit_code # 0)
        /\ (pc # "exited" => error_out = "" /\ exit_code = -1)

\* Reached: the path exists, has no .git entry, and the run has ended.
C4_Witness ==
    /\ repo.exists
    /\ ~repo.has_git
    /\ pc = "exited"
    /\ error_out = "Not a git repository"

\* The report field shows the check as not having been possible.
Unavailable(list) == list = << [marker |-> "Unavailable"] >>

\* C5: a missing external tool is visible in the output: without gitleaks the
\* report says "fallback"; without curl the broken_links field carries an
\* Unavailable marker, not an empty list and not one finding per URL; without
\* git the file listing of a repository with tracked files is marked
\* Unavailable (or the run fails), not shown as zero files checked.
C5_MissingToolVisible ==
    (Emitted /\ PassedPreconditions) =>
        /\ ("gitleaks" \notin installed => R.secrets_scanner = "fallback")
        /\ ("curl" \notin installed /\ urls_found # <<>>
                => Unavailable(R.broken_links))
        /\ ("git" \notin installed /\ repo.files # <<>> => R.files_checked # 0)

\* The issues of the finished probes in the order the URLs were submitted.
RECURSIVE IssuesInOrder(_)
IssuesInOrder(i) ==
    IF i > Len(futures) THEN <<>>
    ELSE LET result == check_link(futures[i], answers[i])
         IN  (IF result.issue # "none"
              THEN << WithFile(result, FileOfUrl(urls_found, result.url)) >>
              ELSE <<>>) \o IssuesInOrder(i + 1)

\* C6: the findings lists are a function of the repository and of the tools'
\* answers: broken_links is the same list, in the same order, whatever the
\* order in which the probes complete.
C6_SameListsEveryRun ==
    Emitted =>
        /\ R.broken_links = IssuesInOrder(1)
        /\ R.hardcoded_paths = scan_hardcoded_paths(tracked_files).val
        /\ R.org_references = scan_org_references(tracked_files).val
        /\ R.typos = scan_typos(tracked_files).val

\* C7: in every emitted report needs_review is true exactly when one of
\* hardcoded_paths, broken_links, typos, org_references is non-empty;
\* potential_secrets has no part in it.
C7_ReviewIffReviewFindings ==
    Emitted =>
        (R.needs_review <=>
            (Len(R.hardcoded_paths) + Len(R.broken_links) + Len(R.typos)
                + Len(R.org_references) > 0))

\* Reached: a report with a secret, no review finding, and needs_review false.
C7_Witness ==
    /\ Emitted
    /\ R.potential_secrets # <<>>
    /\ ~R.needs_review

\* The probe got an HTTP status below 400 from the original domain.
CleanProbe(u, ans) ==
    /\ ans.kind = "out"
    /\ ans.code >= 100
    /\ ans.code < 400
    /\ ans.redirect \in {"", netloc(u)}

\* C8: every probed URL is classified by its outcome; a URL is absent from
\* broken_links only if its probe got an HTTP status below 400 on the
\* original domain, and a link finding sets needs_review, not has_blockers.
C8_EveryFailedProbeReported ==
    Emitted =>
        /\ \A i \in DOMAIN answers :
               ~CleanProbe(futures[i], answers[i]) =>
                   \E j \in 1 .. Len(R.broken_links) :
                       R.broken_links[j].url = futures[i]
        /\ (R.broken_links # <<>> => R.needs_review)
        /\ (R.has_blockers <=> R.potential_secrets # <<>>)

\* The documentation files scan_links reads.
ReadableDoc(name) ==
    /\ File(name).ext \in doc_extensions
    /\ File(name).stat = "file"
    /\ File(name).size <= DocSizeCeiling

UrlsOf(name) ==
    { seg.u : seg \in { s \in SeqToSet(Flatten(File(name).lines)) : s.k = "link" } }

DistinctUrls ==
    UNION { UrlsOf(tracked_files[i]) :
              i \in { j \in 1 .. Len(tracked_files) : ReadableDoc(tracked_files[j]) } }

FirstFileWith(u) ==
    tracked_files[
        CHOOSE i \in 1 .. Len(tracked_files) :
            /\ ReadableDoc(tracked_files[i]) /\ u \in UrlsOf(tracked_files[i])
            /\ \A j \in 1 .. (i - 1) :
                   ~(ReadableDoc(tracked_files[j]) /\ u \in UrlsOf(tracked_files[j]))]

\* C9: scan_links submits one probe per distinct URL of the documentation
\* files, attributed to the first file the URL occurs in; no probe is started
\* twice, all N have been started when scan_links returns, and never more
\* than 10 are in flight.
C9_OneProbePerUrlAtMostTen ==
    /\ Cardinality(running) <= max_workers
    /\ started <= Len(futures)
    /\ running \subseteq 1 .. started
    /\ pc \in PostLinks \cup {"pool"} =>
        /\ Len(futures) = Cardinality(DistinctUrls)
        /\ \A u \in DistinctUrls :
               Cardinality({ i \in 1 .. Len(futures) : futures[i] = u }) = 1
        /\ \A i \in 1 .. Len(urls_found) :
               urls_found[i].file = FirstFileWith(urls_found[i].url)
    /\ pc \in PostLinks =>
        /\ started = Cardinality(DistinctUrls)
        /\ DOMAIN answers = 1 .. started
        /\ running = {}

\* Reached: ten probes in flight and an eleventh URL waiting for a worker.
C9_Witness ==
    /\ pc = "pool"
    /\ Cardinality(running) = max_workers
    /\ started < Len(futures)

\* C10: no field of the report holds a complete secret: the sample of a
\* hardcoded-path finding never contains a whole credential.
C10_NoSecretInReport ==
    Emitted =>
        \A i \in 1 .. Len(R.hardcoded_paths) :
            \A j \in 1 .. Len(R.hardcoded_paths[i].sample) :
                ~IsSecret(R.hardcoded_paths[i].sample[j])

\* C11: the exit code of gitleaks is read by a fixed table.  A run that ends
\* with exit code 1 (and output that is no parse failure) gives the
\* analyzer's non-empty findings, never a clean result and never a failure;
\* an exit code outside {0, 1} or output that does not parse gives an Error
\* outcome that the report tells apart from the executable not being found,
\* which it reports as "fallback".
C11_ExitCodeTable ==
    (gitleaks_run.kind = "exit" /\ pc \in PostLinks \cup {"links", "pool"}) =>
        /\ (gitleaks_run.rc = 1 /\ gitleaks_run.stdout \in {"empty", "array"}) =>
               (scanner_used = "gitleaks" /\ secrets # <<>>)
        /\ (gitleaks_run.rc \notin {0, 1} \/ gitleaks_run.stdout = "garbage") =>
               scanner_used # "fallback"

\* C12: every external process is bounded by a timeout, so whatever process
\* hangs, a run never stays waiting for it: main can always take a next step
\* until the process has exited.  (gitleaks and curl are run with a timeout,
\* and their hanging is the "timeout" outcome of ScanSecrets and FinishProbe.)
C12_NoRunWaitsForever ==
    (~ENABLED Next) => exit_code # -1

\* The files a finding list reports on.
FilesOf(findings) == { findings[i].file : i \in 1 .. Len(findings) }

\* The first FileCap entries of the tracked-file list.
FirstEntries == SeqToSet(Slice(tracked_files, FileCap))

\* C13: the hardcoded-path, fallback-secret, org-reference and typo scanners
\* report only files among the first 300 entries of the tracked-file list,
\* however long the list is.
C13_ContentScannersCapped ==
    Emitted =>
        /\ FilesOf(R.hardcoded_paths) \subseteq FirstEntries
        /\ (R.secrets_scanner = "fallback" =>
                FilesOf(R.potential_secrets) \subseteq FirstEntries)
        /\ FilesOf(R.org_references) \subseteq FirstEntries
        /\ FilesOf(R.typos) \subseteq FirstEntries

\* The patterns of a table that occur somewhere in the file.
MatchSet(table, name) ==
    { i \in 1 .. Len(table) :
        \E seg \in SeqToSet(Flatten(File(name).lines)) : MatchesSeg(table[i], seg) }

\* What a first-match scanner owes a file: no finding when the file is not
\* read or matches no pattern, else one finding typed by the first pattern
\* of the table that the file matches.
OneFindingPerFile(findings, table, name, read) ==
    LET mine == { j \in 1 .. Len(findings) : findings[j].file = name }
        M == MatchSet(table, name)
    IN  IF read /\ M # {}
        THEN /\ Cardinality(mine) = 1
             /\ \A j \in mine :
                    findings[j].type
                        = table[CHOOSE i \in M : \A k \in M : i <= k].desc
        ELSE mine = {}

\* The files each scanner reads.
ReadForPaths(name) ==
    /\ File(name).stat = "file"
    /\ File(name).ext \notin path_skip_extensions
    /\ File(name).size <= SizeCeiling

ReadForSecrets(name) ==
    /\ File(name).stat = "file"
    /\ File(name).ext \notin secret_skip_extensions
    /\ File(name).size <= SizeCeiling

ReadForOrg(name) ==
    /\ File(name).stat = "file"
    /\ ~File(name).orgskip
    /\ File(name).ext \notin secret_skip_extensions
    /\ File(name).size <= DocSizeCeiling

\* C14: the secret-fallback, hardcoded-path and org-reference scanners give
\* every file they scan at most one finding, exactly one when the file they
\* read matches a pattern of their table, however many matches it holds; the
\* finding's type is that of the first matching pattern in table order.
C14_FirstMatchPerFile ==
    Emitted =>
        /\ \A name \in SeqToSet(Slice(tracked_files, FileCap)) :
               /\ OneFindingPerFile(R.hardcoded_paths, path_patterns, name,
                                    ReadForPaths(name))
               /\ (R.secrets_scanner = "fallback" =>
                       OneFindingPerFile(R.potential_secrets, secret_patterns,
                                         name, ReadForSecrets(name)))
        /\ \A name \in SeqToSet(Slice(tracked_files, OrgFileCap)) :
               OneFindingPerFile(R.org_references, org_patterns, name,
                                 ReadForOrg(name))

\* Reached: a report of the fallback scanner on a file with two credentials
\* and on a file with two path shapes and two organisation references.
C14_Witness ==
    /\ Emitted
    /\ R.secrets_scanner = "fallback"
    /\ Cardinality(MatchSet(secret_patterns, "src/config.py")) = 2
    /\ Cardinality(MatchSet(path_patterns, "docs/guide.md")) = 2
    /\ Cardinality(MatchSet(org_patterns, "docs/guide.md")) = 3
    /\ FilesOf(R.potential_secrets) = {"src/config.py"}
    /\ FilesOf(R.hardcoded_paths) = {"docs/guide.md", "src/config.py"}
    /\ FilesOf(R.org_references) = {"docs/guide.md"}

\* The entries of the returned list that are about one URL.
EntriesFor(u) == { j \in 1 .. Len(link_issues) : link_issues[j].url = u }

\* C15: once scan_links has returned, every submitted probe has completed
\* and no worker is in flight, and the returned list holds exactly the
\* outcomes of the probed URLs that had an issue, each once.
C15_ReturnsAfterAllProbes ==
    pc \in PostLinks =>
        /\ running = {}
        /\ started = Len(futures)
        /\ DOMAIN answers = 1 .. Len(futures)
        /\ \A j \in 1 .. Len(link_issues) : link_issues[j].url \in SeqToSet(futures)
        /\ \A i \in 1 .. Len(futures) :
               LET result == check_link(futures[i], answers[i])
               IN  IF result.issue # "none"
                   THEN /\ Cardinality(EntriesFor(futures[i])) = 1
                        /\ \A j \in EntriesFor(futures[i]) :
                               link_issues[j]
                                   = WithFile(result, FileOfUrl(urls_found, futures[i]))
                   ELSE EntriesFor(futures[i]) = {}

\* Reached: scan_links returned from a pool with more probes than workers,
\* some of them with an issue and some without.
C15_Witness ==
    /\ pc \in PostLinks
    /\ Len(futures) > max_workers
    /\ link_issues # <<>>
    /\ Len(link_issues) < Len(futures)
=============================================================================
